---- MODULE Spec2Model ----
(***************************************************************************)
(* The connection coordinator of zbus (zbus/src/connection.rs): serial     *)
(* allocation, the incoming queue, the default message handler and the     *)
(* blocking call_method built on receive_message.                          *)
(*                                                                         *)
(* One Connection (all clones share one ConnectionInner) talks to a peer   *)
(* over one socket.  The peer's messages wait in raw_in until the raw      *)
(* transport reads them; outgoing messages wait in raw_out until try_flush *)
(* writes them.  A message is a record; an Option<T> is a set with at most *)
(* one element.                                                            *)
(***************************************************************************)
EXTENDS Integers, Sequences, FiniteSets, TLC

\* ------------------------------------------------------------------ bounds
\* serial allocations and messages of the peer on a connection whose peer
\* may hang up
MaxIoSends == 2
MaxIoPeerMsgs == 3
\* serial allocations and messages of the peer while a connection is
\* constructed and named
MaxBusSends == 2
MaxBusPeerMsgs == 2
\* two connections on a socket pair: calls of the one, signals of the other
MaxP2pCalls == 2
MaxP2pSignals == 1
\* messages the peer sends to a connection whose handler sends
MaxNestedPeerMsgs == 3
\* messages the peer sends while the caller replaces the handler
MaxHookPeerMsgs == 3
\* messages other than replies that the peer sends in SpecLive
MaxLiveNoise == 2
\* largest max_queued that set_max_queued is given in SpecQueue
MaxQueueBound == 2
\* messages sent and messages the peer sends in SpecAuth
MaxAuthSends == 2
MaxAuthPeerMsgs == 2
\* handles of one connection in SpecRc, the first one included
MaxClones == 2
\* messages sent through the handles, and messages their peer sends
MaxRcSends == 2
MaxRcPeerMsgs == 3
\* messages the peer sends in SpecReentry
MaxReentryPeerMsgs == 2
\* serial allocations explored in Spec
MaxSends == 2
\* messages the peer sends
MaxPeerMsgs == 4
\* messages of the peer that wait in the socket unread
MaxInFlight == 1
\* set_max_queued is called with 0..MaxQueuedArg
MaxQueuedArg == 1
\* file descriptors a message body carries: 0..MaxFds
MaxFds == 1
\* width of the serial counter in the model (u32 in the source, scaled down
\* so that the wrap is within reach of the model checker)
SerialBits == 3

\* --------------------------------------------------------------- constants
DEFAULT_MAX_QUEUED == 32

SerialModulus == 2 ^ SerialBits
\* u32::MAX of the scaled counter
U32Max == SerialModulus - 1
\* allocations explored in SpecWrap: enough to wrap and allocate once more
WrapSends == SerialModulus + 1

NoHandler == "NoHandler"
\* the characters of a Guid and its length
HexLower == {"0", "1", "2", "3", "4", "5", "6", "7", "8", "9",
             "a", "b", "c", "d", "e", "f"}
GuidLen == 32
\* the server_guid of a connection whose handshake is not followed
SomeGuid == [i \in 1..GuidLen |-> IF i % 2 = 0 THEN "a" ELSE "3"]
\* what a server may put after OK: two Guids, and texts that are too short,
\* too long, in upper case or not hexadecimal
OfferedGuids ==
    {[i \in 1..GuidLen |-> "0"],
     [i \in 1..GuidLen |-> IF i % 2 = 0 THEN "9" ELSE "f"],
     [i \in 1..(GuidLen - 1) |-> "0"],
     [i \in 1..(GuidLen + 1) |-> "0"],
     [i \in 1..GuidLen |-> IF i = 5 THEN "A" ELSE "0"],
     [i \in 1..GuidLen |-> IF i = GuidLen THEN "g" ELSE "0"]}
\* the answers of a server to NEGOTIATE_UNIX_FD
FdAnswers == {"AGREE_UNIX_FD", "ERROR"}
\* the bodies a reply carries
Bodies == {"yay", "nay"}
\* the names a caller passes to set_unique_name
Names == {":1.1", ":1.2"}
\* the closure a caller installs: it consumes the signals, hands back a
\* different message for a method call and passes the rest through
HandlerKinds == {"triage"}
\* a second closure, to replace the first: it hands every message back with
\* its own mark
ReplacingKinds == HandlerKinds \cup {"stamp"}
\* a closure that owns a clone of the connection: it answers a method call
\* itself, with send_message on the clone, and consumes it; it passes the
\* rest through
SendingKinds == {"responder"}
\* closures that own a clone of the connection and call, on the clone,
\* receive_message, call_method (with a body without and with a file
\* descriptor), set_default_message_handler or reset_default_message_handler
ReentrantKinds == {"reenter_receive", "reenter_call", "reenter_call_fd",
                   "reenter_set", "reenter_reset"}

VARIABLES
    \* ConnectionInner
    serial,               \* serial: Cell<u32>
    incoming_queue,       \* incoming_queue: RefCell<Vec<Message>>
    max_queued,           \* max_queued: Cell<usize>
    default_msg_handler,  \* default_msg_handler: RefCell<Option<MessageHandlerFn>>
    cap_unix_fd,          \* cap_unix_fd: bool
    \* raw transport
    raw_out,              \* enqueued, not yet written to the socket
    raw_in,               \* sent by the peer, not yet read
    \* the caller's position
    pc,                   \* "idle", "receiving", "flushing", "awaiting", "panicked"
    call_serial,          \* call_method: let serial
    tmp_queue,            \* call_method: let mut tmp_queue
    \* the peer
    peer_serial,          \* serial of the peer's latest message
    \* history
    serials,              \* values next_serial returned, in order
    call_rx,              \* what receive_message did for the latest call_method
    call_at,              \* incoming_queue and max_queued when the latest call_method started
    call_res,             \* outcome of the latest call_method
    taken,                \* messages receive_message returned to the caller
    last,                 \* the latest send, flush, receive or call step: operation, result, values
    handler_arg,          \* argument of the latest set_default_message_handler (NoHandler after a reset)
    \* the socket
    sock,                 \* "connected", or "broken" once the peer has hung up
    \* construction
    unique_name,          \* unique_name: OnceCell<String>
    phase,                \* "New", "Authenticated", "Hello", "Ready", "Failed"
    bus_connection,       \* new_unix_client's bus_connection
    \* the two connections of a socket pair
    p2p,
    \* the clones of a connection: the handles and what each points to
    rc,
    \* the handshake's handoff
    server_guid,          \* server_guid: Guid
    auth                  \* the Authenticated record of a finished handshake (Option)

vars == <<serial, incoming_queue, max_queued, default_msg_handler, cap_unix_fd,
          raw_out, raw_in, pc, call_serial, tmp_queue, peer_serial,
          serials, call_rx, call_at, call_res, taken, last, handler_arg,
          sock, unique_name, phase, bus_connection, p2p, rc,
          server_guid, auth>>

conn_vars == <<serial, incoming_queue, max_queued, default_msg_handler, cap_unix_fd>>
call_vars == <<call_serial, tmp_queue, call_rx, call_at, call_res>>
\* what the operations of a constructed connection with an abstract peer
\* leave alone
other_vars == <<sock, unique_name, phase, bus_connection, p2p, rc,
          server_guid, auth>>

\* ---------------------------------------------------------------- messages
Message(s, t, rs, f) ==
    [serial |-> s, type |-> t, reply_serial |-> rs, fds |-> f, body |-> "orig"]

\* hook: the calls of a handler in the step: the handler, its argument and
\* its result
Label(op, res, arg, msg, ret, src, hook) ==
    [op |-> op, res |-> res, arg |-> arg, msg |-> msg, ret |-> ret, src |-> src,
     hook |-> hook]

\* the element of a set with one element
The(set) == CHOOSE x \in set : TRUE
Front(q) == SubSeq(q, 1, Len(q) - 1)
Range(q) == {q[i] : i \in 1..Len(q)}

\* ------------------------------------------------------------ raw transport
\* enqueue_message: append to the outbound buffer
enqueue_message(out, m) == Append(out, m)

\* try_flush: write as much as the kernel takes; Ok when the buffer is
\* empty afterwards, WouldBlock otherwise.  On a socket sk whose peer has
\* hung up the write fails with an I/O error that is no WouldBlock.
try_flush(out, sk) ==
    IF sk = "broken" /\ out # <<>>
    THEN {[res |-> "Io", out |-> out]}
    ELSE {[res |-> IF k = Len(out) THEN "Ok" ELSE "WouldBlock",
           out |-> SubSeq(out, k + 1, Len(out))] : k \in 0..Len(out)}

\* --------------------------------------------------------------- next_serial
\* next_serial as it would be if it returned the incremented value
next_serial_incremented(s) ==
    IF s + 1 > U32Max
    THEN {[panic |-> TRUE, ret |-> s, cell |-> s],
          [panic |-> FALSE, ret |-> (s + 1) % SerialModulus,
           cell |-> (s + 1) % SerialModulus]}
    ELSE {[panic |-> FALSE, ret |-> s + 1, cell |-> s + 1]}

\* let next = serial.get() + 1; serial.replace(next)
\* The addition overflows at u32::MAX: a build with overflow checks panics,
\* a build without them wraps to 0.
next_serial(s) ==
    IF s + 1 > U32Max
    THEN {[panic |-> TRUE, ret |-> s, cell |-> s],
          [panic |-> FALSE, ret |-> s, cell |-> (s + 1) % SerialModulus]}
    ELSE {[panic |-> FALSE, ret |-> s, cell |-> s + 1]}

\* -------------------------------------------------------------- send_message
\* send_message as it would be if it allocated the serial before it looked
\* at the file descriptors
send_message_late_check(msg, s, cap, out, sk) ==
    UNION {
       IF n.panic
       THEN {[res |-> "panic", cell |-> n.cell, ret |-> {}, alloc |-> {}, out |-> out]}
       ELSE IF msg.fds > 0 /\ ~cap
       THEN {[res |-> "Unsupported", cell |-> n.cell, ret |-> {}, alloc |-> {n.ret},
              out |-> out]}
       ELSE {[res |-> IF f.res = "Io" THEN "Io" ELSE "Ok", cell |-> n.cell,
              ret |-> IF f.res = "Io" THEN {} ELSE {n.ret}, alloc |-> {n.ret},
              out |-> f.out] :
                f \in try_flush(enqueue_message(out, [msg EXCEPT !.serial = n.ret]), sk)}
       : n \in next_serial(s)}

\* send_message as it would be if it returned the WouldBlock of try_flush
send_message_returns_wouldblock(msg, s, cap, out, sk) ==
    IF msg.fds > 0 /\ ~cap
    THEN {[res |-> "Unsupported", cell |-> s, ret |-> {}, alloc |-> {}, out |-> out]}
    ELSE UNION {
           IF n.panic
           THEN {[res |-> "panic", cell |-> n.cell, ret |-> {}, alloc |-> {},
                  out |-> out]}
           ELSE {[res |-> f.res, cell |-> n.cell,
                  ret |-> IF f.res # "Ok" THEN {} ELSE {n.ret}, alloc |-> {n.ret},
                  out |-> f.out] :
                    f \in try_flush(enqueue_message(out, [msg EXCEPT !.serial = n.ret]),
                                    sk)}
           : n \in next_serial(s)}

\* The outcomes of send_message(msg) on a connection whose counter is s,
\* whose capability is cap, whose outbound buffer is out and whose socket is
\* sk: the result, the counter, the serial returned (ret), the serial
\* allocated (alloc) and the outbound buffer.  A WouldBlock of try_flush is
\* swallowed, any other error is returned.
send_message(msg, s, cap, out, sk) ==
    IF msg.fds > 0 /\ ~cap
    THEN {[res |-> "Unsupported", cell |-> s, ret |-> {}, alloc |-> {}, out |-> out]}
    ELSE UNION {
           IF n.panic
           THEN {[res |-> "panic", cell |-> n.cell, ret |-> {}, alloc |-> {},
                  out |-> out]}
           ELSE {[res |-> IF f.res = "Io" THEN "Io" ELSE "Ok", cell |-> n.cell,
                  ret |-> IF f.res = "Io" THEN {} ELSE {n.ret}, alloc |-> {n.ret},
                  out |-> f.out] :
                    f \in try_flush(enqueue_message(out, [msg EXCEPT !.serial = n.ret]),
                                    sk)}
           : n \in next_serial(s)}

\* ----------------------------------------------------------- message handler
\* handler(incoming): Some(m) or None
HandlerResult(h, m) ==
    CASE h = "triage" ->
            CASE m.type = "Signal" -> {}
              [] m.type = "MethodCall" -> {[m EXCEPT !.body = "replaced"]}
              [] OTHER -> {m}
      [] h = "stamp" -> {[m EXCEPT !.body = "stamped"]}
      [] h = "responder" -> IF m.type = "MethodCall" THEN {} ELSE {m}
      [] h \in ReentrantKinds -> {}

\* the messages the handler gives to send_message of its clone while it runs
HandlerSends(h, m) ==
    IF h = "responder" /\ m.type = "MethodCall"
    THEN <<Message(0, "MethodReturn", {m.serial}, 0)>>
    ELSE <<>>

\* the RefCells that receive_message has borrowed while the handler runs: the
\* queue (let mut queue) and the handler; the borrow of raw_conn ended with
\* the statement that read the message
HandlerHolds == {"incoming_queue", "default_msg_handler"}

\* send_message called while the RefCells in held are borrowed: the counter
\* is a Cell, and raw_conn.borrow_mut() panics if raw_conn is borrowed
nested_send_message(msg, s, cap, out, sk, held) ==
    IF "raw_conn" \in held /\ ~(msg.fds > 0 /\ ~cap)
    THEN {[res |-> "panic", cell |-> n.cell, ret |-> {},
           alloc |-> IF n.panic THEN {} ELSE {n.ret}, out |-> out] :
             n \in next_serial(s)}
    ELSE send_message(msg, s, cap, out, sk)

\* RefCell::borrow_mut as it would be if it did not track the borrows
borrow_mut_unchecked(cell, held) == "Ok"

\* RefCell::borrow_mut of a field while the RefCells in held are borrowed
borrow_mut(cell, held) == IF cell \in held THEN "panic" ELSE "Ok"

\* receive_message, set_default_message_handler or
\* reset_default_message_handler called while the RefCells in held are
\* borrowed: each starts with borrow_mut of cell.  Not borrowed, the call is
\* the operation itself.
nested_borrow(cell, s, out, held) ==
    {[res |-> borrow_mut(cell, held), cell |-> s, ret |-> {}, alloc |-> {},
      out |-> out]}

\* call_method called while the RefCells in held are borrowed: its
\* send_message, then its flush loop to the end (the buffer is empty, or
\* the socket is broken), then the first receive_message
nested_call_method(msg, s, cap, out, sk, held) ==
    {IF o.res # "Ok" THEN o
     ELSE IF sk = "broken" /\ o.out # <<>>
          THEN [o EXCEPT !.res = "Io", !.ret = {}]
          ELSE [o EXCEPT !.res = borrow_mut("incoming_queue", held),
                         !.ret = {}, !.out = <<>>] :
       o \in nested_send_message(msg, s, cap, out, sk, held)}

\* what the handler calls on its clone while it runs, with the outcomes of
\* the call; the empty set for a handler that calls nothing
HandlerCalls(h, m, s, cap, out, sk, held) ==
    CASE HandlerSends(h, m) # <<>> ->
            nested_send_message(HandlerSends(h, m)[1], s, cap, out, sk, held)
      [] h = "reenter_receive" -> nested_borrow("incoming_queue", s, out, held)
      [] h = "reenter_call" ->
            nested_call_method(Message(0, "MethodCall", {}, 0), s, cap, out, sk, held)
      [] h = "reenter_call_fd" ->
            nested_call_method(Message(0, "MethodCall", {}, 1), s, cap, out, sk, held)
      [] h \in {"reenter_set", "reenter_reset"} ->
            nested_borrow("default_msg_handler", s, out, held)
      [] OTHER -> {}

\* ------------------------------------------------------------ receive_message
\* receive_message as it would be if it gave the messages of the queue to the
\* handler too
receive_message_hooks_queue(queue, in, handler, sk) ==
    IF queue # <<>>
    THEN LET m == queue[Len(queue)]
             r == IF handler # NoHandler THEN HandlerResult(handler, m) ELSE {m}
         IN [res |-> IF r = {} THEN "Continue" ELSE "Ok", msg |-> r,
             queue |-> Front(queue), in |-> in, src |-> "queue", raw |-> {},
             hook |-> IF handler # NoHandler THEN <<[fn |-> handler, arg |-> m, ret |-> r]>>
                      ELSE <<>>]
    ELSE IF in = <<>>
    THEN [res |-> IF sk = "broken" THEN "Io" ELSE "WouldBlock", msg |-> {},
          queue |-> queue, in |-> in, src |-> "none", raw |-> {}, hook |-> <<>>]
    ELSE LET incoming == Head(in) IN
         IF handler # NoHandler
         THEN LET r == HandlerResult(handler, incoming) IN
              [res |-> IF r = {} THEN "Continue" ELSE "Ok", msg |-> r,
               queue |-> queue, in |-> Tail(in), src |-> "transport",
               raw |-> {incoming}, hook |-> <<[fn |-> handler, arg |-> incoming, ret |-> r]>>]
         ELSE [res |-> "Ok", msg |-> {incoming}, queue |-> queue,
               in |-> Tail(in), src |-> "transport",
               raw |-> {incoming}, hook |-> <<>>]

\* receive_message as it would be if it returned the message that the handler
\* consumed
receive_message_ignores_none(queue, in, handler, sk) ==
    IF queue # <<>>
    THEN [res |-> "Ok", msg |-> {queue[Len(queue)]}, queue |-> Front(queue),
          in |-> in, src |-> "queue", raw |-> {}, hook |-> <<>>]
    ELSE IF in = <<>>
    THEN [res |-> IF sk = "broken" THEN "Io" ELSE "WouldBlock", msg |-> {},
          queue |-> queue, in |-> in, src |-> "none", raw |-> {}, hook |-> <<>>]
    ELSE LET incoming == Head(in) IN
         IF handler # NoHandler
         THEN LET r == HandlerResult(handler, incoming) IN
              [res |-> "Ok", msg |-> IF r = {} THEN {incoming} ELSE r,
               queue |-> queue, in |-> Tail(in), src |-> "transport",
               raw |-> {incoming}, hook |-> <<[fn |-> handler, arg |-> incoming, ret |-> r]>>]
         ELSE [res |-> "Ok", msg |-> {incoming}, queue |-> queue,
               in |-> Tail(in), src |-> "transport",
               raw |-> {incoming}, hook |-> <<>>]

\* receive_message as it would be if it tried again when there is nothing to
\* read
receive_message_tries_again(queue, in, handler, sk) ==
    IF queue # <<>>
    THEN [res |-> "Ok", msg |-> {queue[Len(queue)]}, queue |-> Front(queue),
          in |-> in, src |-> "queue", raw |-> {}, hook |-> <<>>]
    ELSE IF in = <<>>
    THEN [res |-> IF sk = "broken" THEN "Io" ELSE "Continue", msg |-> {},
          queue |-> queue, in |-> in, src |-> "none", raw |-> {}, hook |-> <<>>]
    ELSE LET incoming == Head(in) IN
         IF handler # NoHandler
         THEN LET r == HandlerResult(handler, incoming) IN
              [res |-> IF r = {} THEN "Continue" ELSE "Ok", msg |-> r,
               queue |-> queue, in |-> Tail(in), src |-> "transport",
               raw |-> {incoming}, hook |-> <<[fn |-> handler, arg |-> incoming, ret |-> r]>>]
         ELSE [res |-> "Ok", msg |-> {incoming}, queue |-> queue,
               in |-> Tail(in), src |-> "transport",
               raw |-> {incoming}, hook |-> <<>>]

\* One pass of receive_message: the queue first, then one try_receive_message
\* and the handler.  res is "Ok" (return m), "WouldBlock" or "Io" (return the
\* error of try_receive_message: nothing to read yet, or nothing to read and
\* the peer has hung up) or "Continue" (the handler consumed the message:
\* loop).
receive_message(queue, in, handler, sk) ==
    IF queue # <<>>
    THEN [res |-> "Ok", msg |-> {queue[Len(queue)]}, queue |-> Front(queue),
          in |-> in, src |-> "queue", raw |-> {}, hook |-> <<>>]
    ELSE IF in = <<>>
    THEN [res |-> IF sk = "broken" THEN "Io" ELSE "WouldBlock", msg |-> {},
          queue |-> queue, in |-> in, src |-> "none", raw |-> {}, hook |-> <<>>]
    ELSE LET incoming == Head(in) IN
         IF handler # NoHandler
         THEN LET r == HandlerResult(handler, incoming) IN
              [res |-> IF r = {} THEN "Continue" ELSE "Ok", msg |-> r,
               queue |-> queue, in |-> Tail(in), src |-> "transport",
               raw |-> {incoming}, hook |-> <<[fn |-> handler, arg |-> incoming, ret |-> r]>>]
         ELSE [res |-> "Ok", msg |-> {incoming}, queue |-> queue,
               in |-> Tail(in), src |-> "transport",
               raw |-> {incoming}, hook |-> <<>>]

\* ---------------------------------------------------------------- call_method
\* call_method as it was before it kept the unrelated messages
call_method_step_drops(m, queue, tmp, maxq, s) ==
    IF m.reply_serial # {s}
    THEN [queue |-> queue, tmp |-> tmp, ret |-> "none"]
    ELSE [queue |-> queue \o tmp,
          tmp |-> <<>>,
          ret |-> CASE m.type = "Error" -> "MethodError"
                    [] m.type = "MethodReturn" -> "Ok"
                    [] OTHER -> "none"]

\* call_method as it would be if it pushed a message with another reply
\* serial to the incoming queue at once
call_method_step_pushes(m, queue, tmp, maxq, s) ==
    IF m.reply_serial # {s}
    THEN [queue |-> IF Len(queue) + Len(tmp) < maxq THEN Append(queue, m) ELSE queue,
          tmp |-> tmp,
          ret |-> "none"]
    ELSE [queue |-> queue \o tmp,
          tmp |-> <<>>,
          ret |-> CASE m.type = "Error" -> "MethodError"
                    [] m.type = "MethodReturn" -> "Ok"
                    [] OTHER -> "none"]

\* call_method as it would be if it staged the latest message only
call_method_step_keeps_latest(m, queue, tmp, maxq, s) ==
    IF m.reply_serial # {s}
    THEN [queue |-> queue,
          tmp |-> IF Len(queue) + Len(tmp) < maxq THEN <<m>> ELSE tmp,
          ret |-> "none"]
    ELSE [queue |-> queue \o tmp,
          tmp |-> <<>>,
          ret |-> CASE m.type = "Error" -> "MethodError"
                    [] m.type = "MethodReturn" -> "Ok"
                    [] OTHER -> "none"]

\* call_method as it would be if it returned on an ERROR only
call_method_step_error_only(m, queue, tmp, maxq, s) ==
    IF m.reply_serial # {s}
    THEN [queue |-> queue,
          tmp |-> IF Len(queue) + Len(tmp) < maxq THEN Append(tmp, m) ELSE tmp,
          ret |-> "none"]
    ELSE [queue |-> queue \o tmp,
          tmp |-> <<>>,
          ret |-> CASE m.type = "Error" -> "MethodError"
                    [] OTHER -> "none"]

\* call_method as it would be if it kept every message
call_method_step_unbounded(m, queue, tmp, maxq, s) ==
    IF m.reply_serial # {s}
    THEN [queue |-> queue, tmp |-> Append(tmp, m), ret |-> "none"]
    ELSE [queue |-> queue \o tmp,
          tmp |-> <<>>,
          ret |-> CASE m.type = "Error" -> "MethodError"
                    [] m.type = "MethodReturn" -> "Ok"
                    [] OTHER -> "none"]

\* call_method as it would be if it compared the lengths with <=
call_method_step_one_more(m, queue, tmp, maxq, s) ==
    IF m.reply_serial # {s}
    THEN [queue |-> queue,
          tmp |-> IF Len(queue) + Len(tmp) <= maxq THEN Append(tmp, m) ELSE tmp,
          ret |-> "none"]
    ELSE [queue |-> queue \o tmp,
          tmp |-> <<>>,
          ret |-> CASE m.type = "Error" -> "MethodError"
                    [] m.type = "MethodReturn" -> "Ok"
                    [] OTHER -> "none"]

\* call_method as it would be if it returned an ERROR reply as a success
call_method_step_error_ok(m, queue, tmp, maxq, s) ==
    IF m.reply_serial # {s}
    THEN [queue |-> queue,
          tmp |-> IF Len(queue) + Len(tmp) < maxq THEN Append(tmp, m) ELSE tmp,
          ret |-> "none"]
    ELSE [queue |-> queue \o tmp,
          tmp |-> <<>>,
          ret |-> CASE m.type \in {"Error", "MethodReturn"} -> "Ok"
                    [] OTHER -> "none"]

\* What call_method does with a message m that receive_message returned,
\* while it awaits the reply to s: ret is "none" (keep waiting), "Ok" or
\* "MethodError".
call_method_step(m, queue, tmp, maxq, s) ==
    IF m.reply_serial # {s}
    THEN [queue |-> queue,
          tmp |-> IF Len(queue) + Len(tmp) < maxq THEN Append(tmp, m) ELSE tmp,
          ret |-> "none"]
    ELSE [queue |-> queue \o tmp,
          tmp |-> <<>>,
          ret |-> CASE m.type = "Error" -> "MethodError"
                    [] m.type = "MethodReturn" -> "Ok"
                    [] OTHER -> "none"]

\* ------------------------------------------------------------------- Init
\* the fields that new_authenticated_unix gives a connection, with a peer
\* that has sent nothing
Constructed ==
    /\ serial = 1
    /\ incoming_queue = <<>>
    /\ max_queued = DEFAULT_MAX_QUEUED
    /\ default_msg_handler = NoHandler
    /\ cap_unix_fd \in BOOLEAN
    /\ unique_name = {}
    /\ raw_out = <<>>
    /\ raw_in = <<>>
    /\ sock = "connected"
    /\ pc = "idle"
    /\ call_serial = 0
    /\ tmp_queue = <<>>
    /\ peer_serial = 0
    /\ serials = <<>>
    /\ call_rx = <<>>
    /\ call_at = [queue |-> <<>>, max_queued |-> DEFAULT_MAX_QUEUED]
    /\ call_res = "none"
    /\ taken = {}
    /\ handler_arg = NoHandler
    /\ server_guid = SomeGuid
    /\ auth = {}

\* new_authenticated_unix
Init ==
    /\ Constructed
    /\ last = Label("new", "Ok", {}, {}, {}, "none", <<>>)
    /\ phase = "Ready"
    /\ bus_connection = FALSE
    /\ p2p = <<>>
    /\ rc = <<>>


\* --------------------------------------------------------------- operations
\* set_max_queued
SetMaxQueued(n) ==
    /\ pc = "idle"
    /\ max_queued' = n
    /\ UNCHANGED <<serial, incoming_queue, default_msg_handler, cap_unix_fd,
                   raw_out, raw_in, pc, peer_serial, serials, taken, last>>
    /\ UNCHANGED call_vars
    /\ UNCHANGED <<handler_arg, other_vars>>

\* set_default_message_handler as it would be if it kept a handler that is
\* installed
SetDefaultMessageHandler_keeps(h) ==
    /\ pc = "idle"
    /\ default_msg_handler' = IF default_msg_handler = NoHandler THEN h
                              ELSE default_msg_handler
    /\ handler_arg' = h
    /\ UNCHANGED other_vars
    /\ UNCHANGED <<serial, incoming_queue, max_queued, cap_unix_fd,
                   raw_out, raw_in, pc, peer_serial, serials, taken, last>>
    /\ UNCHANGED call_vars

\* set_default_message_handler
SetDefaultMessageHandler(h) ==
    /\ pc = "idle"
    /\ default_msg_handler' = h
    /\ handler_arg' = h
    /\ UNCHANGED other_vars
    /\ UNCHANGED <<serial, incoming_queue, max_queued, cap_unix_fd,
                   raw_out, raw_in, pc, peer_serial, serials, taken, last>>
    /\ UNCHANGED call_vars

\* reset_default_message_handler
ResetDefaultMessageHandler ==
    /\ pc = "idle"
    /\ default_msg_handler' = NoHandler
    /\ handler_arg' = NoHandler
    /\ UNCHANGED other_vars
    /\ UNCHANGED <<serial, incoming_queue, max_queued, cap_unix_fd,
                   raw_out, raw_in, pc, peer_serial, serials, taken, last>>
    /\ UNCHANGED call_vars

\* the serials log after an allocation that returned ret (nothing on a panic
\* or when send_message returned before next_serial)
Logged(log, ret) == IF ret = {} THEN log ELSE Append(log, CHOOSE x \in ret : TRUE)

\* a caller's send_message(msg), directly or through emit_signal, reply or
\* reply_error
Send(op, msg) ==
    /\ pc = "idle"
    /\ \E o \in send_message(msg, serial, cap_unix_fd, raw_out, sock) :
          /\ serial' = o.cell
          /\ raw_out' = o.out
          /\ serials' = Logged(serials, o.alloc)
          /\ pc' = IF o.res = "panic" THEN "panicked" ELSE "idle"
          /\ last' = Label(op, o.res, {msg}, {},
                           IF op = "emit_signal" THEN {} ELSE o.ret, "none", <<>>)
    /\ UNCHANGED <<incoming_queue, max_queued, default_msg_handler, cap_unix_fd,
                   raw_in, peer_serial, taken>>
    /\ UNCHANGED call_vars
    /\ UNCHANGED <<handler_arg, other_vars>>

\* send_message with a message the caller built
SendMessage(f) == Send("send_message", Message(0, "MethodCall", {}, f))

\* emit_signal: Message::signal, then send_message
EmitSignal == Send("emit_signal", Message(0, "Signal", {}, 0))

\* reply: Message::method_reply (REPLY_SERIAL is the call's serial), then
\* send_message
Reply(call) == Send("reply", Message(0, "MethodReturn", {call.serial}, 0))

\* reply_error: Message::method_error, then send_message
ReplyError(call) == Send("reply_error", Message(0, "Error", {call.serial}, 0))

\* flush
Flush ==
    /\ pc = "idle"
    /\ \E f \in try_flush(raw_out, sock) :
          /\ raw_out' = f.out
          /\ last' = Label("flush", f.res, {}, {}, {}, "none", <<>>)
    /\ UNCHANGED <<raw_in, pc, peer_serial, serials, taken>>
    /\ UNCHANGED conn_vars
    /\ UNCHANGED call_vars
    /\ UNCHANGED <<handler_arg, other_vars>>

\* receive_message called by the caller: one pass of its loop.  On a
\* blocking socket the WouldBlock outcome does not occur (the read waits).
\* A handler that sends does so inside the pass.
ReceiveMessage ==
    /\ pc \in {"idle", "receiving"}
    /\ LET r == receive_message(incoming_queue, raw_in, default_msg_handler, sock)
           calls == IF r.hook = <<>> THEN {}
                    ELSE HandlerCalls(r.hook[1].fn, r.hook[1].arg, serial,
                                      cap_unix_fd, raw_out, sock, HandlerHolds)
       IN /\ incoming_queue' = r.queue
          /\ raw_in' = r.in
          /\ taken' = taken \cup r.msg
          /\ IF calls = {}
             THEN /\ pc' = IF r.res = "Continue" THEN "receiving" ELSE "idle"
                  /\ last' = Label("receive_message", r.res, {}, r.msg, {}, r.src,
                                   r.hook)
                  /\ UNCHANGED <<serial, raw_out, serials>>
             ELSE \E o \in calls :
                     /\ last' = Label("receive_message",
                                      IF o.res = "panic" THEN "panic" ELSE r.res,
                                      {}, r.msg, {}, r.src, r.hook)
                     /\ serial' = o.cell
                     /\ raw_out' = o.out
                     /\ serials' = Logged(serials, o.alloc)
                     /\ pc' = CASE o.res = "panic" -> "panicked"
                                [] r.res = "Continue" -> "receiving"
                                [] OTHER -> "idle"
    /\ UNCHANGED <<max_queued, default_msg_handler, cap_unix_fd, peer_serial>>
    /\ UNCHANGED call_vars
    /\ UNCHANGED <<handler_arg, other_vars>>

\* call_method up to the return of its send_message
CallMethod(f) ==
    /\ pc = "idle"
    /\ LET m == Message(0, "MethodCall", {}, f) IN
       \E o \in send_message(m, serial, cap_unix_fd, raw_out, sock) :
          /\ serial' = o.cell
          /\ raw_out' = o.out
          /\ serials' = Logged(serials, o.alloc)
          /\ pc' = CASE o.res = "panic" -> "panicked"
                     [] o.res = "Ok" -> "flushing"
                     [] OTHER -> "idle"
          /\ call_serial' = IF o.res = "Ok" THEN CHOOSE x \in o.ret : TRUE
                            ELSE call_serial
          /\ call_res' = IF o.res = "Ok" THEN "pending" ELSE o.res
          /\ last' = Label("call_method", IF o.res = "Ok" THEN "pending" ELSE o.res,
                           {m}, {}, o.ret, "none", <<>>)
    /\ tmp_queue' = <<>>
    /\ call_rx' = <<>>
    /\ call_at' = [queue |-> incoming_queue, max_queued |-> max_queued]
    /\ UNCHANGED <<incoming_queue, max_queued, default_msg_handler, cap_unix_fd,
                   raw_in, peer_serial, taken>>
    /\ UNCHANGED <<handler_arg, other_vars>>

\* call_method's match on an error of flush or of receive_message, as it
\* would be if it returned every error
call_method_retries_never(res) == FALSE

\* call_method's match on an error of flush or of receive_message: a
\* WouldBlock waits for the socket (wait_on) and tries again, any other error
\* is returned
call_method_retries(res) == res = "WouldBlock"

\* call_method's loop around flush as it would be if it flushed once and
\* went on to receive when the socket would block
CallFlush_once ==
    /\ pc = "flushing"
    /\ \E f \in try_flush(raw_out, sock) :
          LET err == f.res # "Ok" /\ ~call_method_retries(f.res)
          IN /\ raw_out' = f.out
             /\ pc' = IF err THEN "idle" ELSE "awaiting"
             /\ call_res' = IF err THEN f.res ELSE call_res
             /\ last' = Label("call_method", IF err THEN f.res ELSE "flush",
                              {}, {}, {}, "none", <<>>)
    /\ UNCHANGED <<raw_in, peer_serial, serials, taken>>
    /\ UNCHANGED conn_vars
    /\ UNCHANGED <<call_serial, tmp_queue, call_rx, call_at>>
    /\ UNCHANGED <<handler_arg, other_vars>>

\* call_method: one pass of the loop around flush
CallFlush ==
    /\ pc = "flushing"
    /\ \E f \in try_flush(raw_out, sock) :
          LET again == f.res # "Ok" /\ call_method_retries(f.res)
              err == f.res # "Ok" /\ ~call_method_retries(f.res)
          IN /\ raw_out' = f.out
             /\ pc' = CASE f.res = "Ok" -> "awaiting"
                        [] again -> "flushing"
                        [] OTHER -> "idle"
             /\ call_res' = IF err THEN f.res ELSE call_res
             /\ last' = Label("call_method", IF err THEN f.res ELSE "flush",
                              {}, {}, {}, "none", <<>>)
    /\ UNCHANGED <<raw_in, peer_serial, serials, taken>>
    /\ UNCHANGED conn_vars
    /\ UNCHANGED <<call_serial, tmp_queue, call_rx, call_at>>
    /\ UNCHANGED <<handler_arg, other_vars>>

\* call_method: one pass of the receive loop (with a handler that sends
\* nothing, as in every specification that calls methods).  When
\* receive_message returns
\* WouldBlock the pass waits for POLLIN and changes nothing; on any other
\* error call_method returns it and tmp_queue goes out of scope.
CallReceive ==
    /\ pc = "awaiting"
    /\ LET r == receive_message(incoming_queue, raw_in, default_msg_handler, sock) IN
       IF r.res \in {"WouldBlock", "Io"}
       THEN IF call_method_retries(r.res)
            THEN UNCHANGED <<incoming_queue, raw_in, pc, tmp_queue, call_rx, call_res, last>>
            ELSE /\ pc' = "idle"
                 /\ call_res' = r.res
                 /\ tmp_queue' = <<>>
                 /\ last' = Label("call_method", r.res, {}, {}, {}, r.src, r.hook)
                 /\ UNCHANGED <<incoming_queue, raw_in, call_rx>>
       ELSE
          /\ raw_in' = r.in
          /\ call_rx' = Append(call_rx, [src |-> r.src, raw |-> r.raw, msg |-> r.msg])
          /\ IF r.res = "Continue"
             THEN /\ incoming_queue' = r.queue
                  /\ last' = Label("call_method", "pending", {}, {}, {}, r.src, r.hook)
                  /\ UNCHANGED <<pc, tmp_queue, call_res>>
             ELSE LET m == CHOOSE x \in r.msg : TRUE
                      c == call_method_step(m, r.queue, tmp_queue, max_queued, call_serial)
                  IN /\ incoming_queue' = c.queue
                     /\ tmp_queue' = IF c.ret = "none" THEN c.tmp ELSE <<>>
                     /\ pc' = IF c.ret = "none" THEN "awaiting" ELSE "idle"
                     /\ call_res' = IF c.ret = "none" THEN "pending" ELSE c.ret
                     /\ last' = Label("call_method",
                                      IF c.ret = "none" THEN "pending" ELSE c.ret,
                                      {}, IF c.ret = "none" THEN {} ELSE {m}, {}, r.src, r.hook)
    /\ UNCHANGED <<serial, max_queued, default_msg_handler, cap_unix_fd,
                   raw_out, peer_serial, serials, taken, call_serial, call_at>>
    /\ UNCHANGED <<handler_arg, other_vars>>

\* -------------------------------------------------------------- unique name
\* set_unique_name as it would be if the cell could be written again
set_unique_name_overwrites(cell, name) == [cell |-> {name}, res |-> "Ok"]

\* set_unique_name: OnceCell::set stores the name in an empty cell and
\* returns Err (with the name) when the cell is full
set_unique_name(cell, name) ==
    IF cell = {} THEN [cell |-> {name}, res |-> "Ok"]
    ELSE [cell |-> cell, res |-> "Err"]

\* the caller's set_unique_name(name)
SetUniqueName(name) ==
    /\ pc = "idle"
    /\ phase = "Ready"
    /\ LET r == set_unique_name(unique_name, name) IN
          /\ unique_name' = r.cell
          /\ last' = Label("set_unique_name", r.res, {name}, {}, {}, "none", <<>>)
    /\ UNCHANGED <<raw_out, raw_in, pc, peer_serial, serials, taken, handler_arg,
                   sock, phase, bus_connection, p2p, rc,
          server_guid, auth>>
    /\ UNCHANGED conn_vars
    /\ UNCHANGED call_vars

\* ------------------------------------------------------------- construction
\* new_unix_client(stream, bus_connection) has been called: nothing is
\* authenticated yet, and the fields are those that new_authenticated_unix
\* will give the connection
InitNew ==
    /\ Constructed
    /\ last = Label("new_unix_client", "pending", {}, {}, {}, "none", <<>>)
    /\ phase = "New"
    /\ bus_connection \in BOOLEAN
    /\ p2p = <<>>
    /\ rc = <<>>

\* what the steps of the construction leave alone
built_vars == <<raw_out, raw_in, pc, peer_serial, serials, taken, handler_arg,
                sock, bus_connection, p2p, rc,
          server_guid, auth>>

\* ClientHandshake::new(stream).blocking_finish()?: the SASL lines are
\* exchanged on the stream; no D-Bus message is involved
Handshake ==
    /\ phase = "New"
    /\ \E ok \in BOOLEAN :
          /\ phase' = IF ok THEN "Authenticated" ELSE "Failed"
          /\ last' = Label("new_unix_client", IF ok THEN "pending" ELSE "Handshake",
                           {}, {}, {}, "none", <<>>)
    /\ UNCHANGED <<built_vars, unique_name>>
    /\ UNCHANGED conn_vars
    /\ UNCHANGED call_vars

\* new_unix_client, bus_connection false: Ok(new_authenticated_unix(auth))
NewAuthenticatedUnix ==
    /\ phase = "Authenticated"
    /\ ~bus_connection
    /\ phase' = "Ready"
    /\ last' = Label("new_unix_client", "Ok", {}, {}, {}, "none", <<>>)
    /\ UNCHANGED <<built_vars, unique_name>>
    /\ UNCHANGED conn_vars
    /\ UNCHANGED call_vars

\* new_authenticated_unix_bus up to the Hello: the connection is built and
\* DBusProxy::hello is about to call the method
NewAuthenticatedUnixBus ==
    /\ phase = "Authenticated"
    /\ bus_connection
    /\ phase' = "Hello"
    /\ UNCHANGED <<built_vars, unique_name, last>>
    /\ UNCHANGED conn_vars
    /\ UNCHANGED call_vars

\* the name that hello() decodes from the body of the reply
HelloName(m) == m.body

\* new_authenticated_unix_bus as it would be if it returned the connection
\* whatever hello() returned
HelloDone_unchecked ==
    /\ phase = "Hello"
    /\ pc = "idle"
    /\ call_res \notin {"none", "pending"}
    /\ phase' = "Ready"
    /\ last' = Label("new_unix_client", "Ok", {}, {}, {}, "none", <<>>)
    /\ unique_name' = IF call_res = "Ok"
                      THEN set_unique_name(unique_name, HelloName(The(last.msg))).cell
                      ELSE unique_name
    /\ UNCHANGED built_vars
    /\ UNCHANGED conn_vars
    /\ UNCHANGED call_vars

\* new_authenticated_unix_bus after hello() has returned: an error becomes
\* Error::Handshake, a name is stored (a full cell is a panic) and the
\* connection is returned
HelloDone ==
    /\ phase = "Hello"
    /\ pc = "idle"
    /\ call_res \notin {"none", "pending"}
    /\ IF call_res = "Ok"
       THEN LET r == set_unique_name(unique_name, HelloName(The(last.msg))) IN
            /\ unique_name' = r.cell
            /\ pc' = IF r.res = "Ok" THEN "idle" ELSE "panicked"
            /\ phase' = IF r.res = "Ok" THEN "Ready" ELSE "Failed"
            /\ last' = Label("new_unix_client", IF r.res = "Ok" THEN "Ok" ELSE "panic",
                             {}, {}, {}, "none", <<>>)
       ELSE /\ phase' = "Failed"
            /\ last' = Label("new_unix_client", "Handshake", {}, {}, {}, "none", <<>>)
            /\ UNCHANGED <<unique_name, pc>>
    /\ UNCHANGED <<raw_out, raw_in, peer_serial, serials, taken, handler_arg,
                   sock, bus_connection, p2p, rc,
          server_guid, auth>>
    /\ UNCHANGED conn_vars
    /\ UNCHANGED call_vars

\* ------------------------------------------------------------------ the peer
\* what the peer puts on the socket: calls and signals, and returns, errors
\* and stray signals that answer a serial this side has used
PeerShapes ==
    {<<"MethodCall", {}>>, <<"Signal", {}>>}
    \cup {<<t, {serials[Len(serials)]}>> :
             t \in IF serials = <<>> THEN {} ELSE {"MethodReturn", "Error", "Signal"}}

\* the method calls among the messages the caller holds
Calls(msgs) == {m \in msgs : m.type = "MethodCall"}

PeerSend(t, rs) ==
    /\ pc # "panicked"
    /\ sock = "connected"
    /\ peer_serial < MaxPeerMsgs
    /\ Len(raw_in) < MaxInFlight
    /\ peer_serial' = peer_serial + 1
    /\ raw_in' = Append(raw_in, Message(peer_serial + 1, t, rs, 0))
    /\ UNCHANGED <<raw_out, pc, serials, taken, last>>
    /\ UNCHANGED conn_vars
    /\ UNCHANGED call_vars
    /\ UNCHANGED <<handler_arg, other_vars>>

\* the peer closes its end of the socket: from now on a write fails, and a
\* read fails once the messages in flight are read
PeerHangup ==
    /\ pc # "panicked"
    /\ sock = "connected"
    /\ sock' = "broken"
    /\ UNCHANGED <<raw_out, raw_in, pc, peer_serial, serials, taken, last,
                   handler_arg, unique_name, phase, bus_connection, p2p, rc,
          server_guid, auth>>
    /\ UNCHANGED conn_vars
    /\ UNCHANGED call_vars

\* ------------------------------------------------- two connections, one pair
\* Two connections A and B on the two ends of a socket pair, each with its
\* own thread: A calls methods; B receives, replies and emits signals.  What
\* one end writes waits in to_a or to_b until the other end reads it.
P2pStart ==
    [a_serial |-> 1, a_queue |-> <<>>, a_out |-> <<>>, a_pc |-> "idle",
     a_call |-> 0, a_tmp |-> <<>>, a_res |-> "none", a_got |-> {},
     b_serial |-> 1, b_queue |-> <<>>, b_out |-> <<>>, b_taken |-> {},
     b_replied |-> {}, b_signals |-> 0,
     to_a |-> <<>>, to_b |-> <<>>]

\* new_unix_server(p0, guid) and new_unix_client(p1, false) have returned
InitP2p ==
    /\ Constructed
    /\ last = Label("new", "Ok", {}, {}, {}, "none", <<>>)
    /\ phase = "Ready"
    /\ bus_connection = FALSE
    /\ p2p = P2pStart
    /\ rc = <<>>

\* every variable of the single connection
single_vars == <<serial, incoming_queue, max_queued, default_msg_handler, cap_unix_fd,
                 raw_out, raw_in, pc, call_serial, tmp_queue, peer_serial,
                 serials, call_rx, call_at, call_res, taken, last, handler_arg,
                 sock, unique_name, phase, bus_connection, server_guid, auth>>

\* what a flush wrote: the start of the buffer that is no longer in it
Written(before, after) == SubSeq(before, 1, Len(before) - Len(after))

\* A: call_method up to the return of its send_message
P2pCallMethod ==
    /\ p2p.a_pc = "idle"
    /\ p2p.a_serial <= MaxP2pCalls
    /\ LET m == Message(0, "MethodCall", {}, 0) IN
       \E o \in send_message(m, p2p.a_serial, cap_unix_fd, p2p.a_out, "connected") :
          /\ o.res = "Ok"
          /\ p2p' = [p2p EXCEPT
                !.a_serial = o.cell,
                !.a_out = o.out,
                !.to_b = @ \o Written(enqueue_message(p2p.a_out,
                                         [m EXCEPT !.serial = The(o.ret)]), o.out),
                !.a_pc = "flushing",
                !.a_call = The(o.ret),
                !.a_tmp = <<>>,
                !.a_res = "pending",
                !.a_got = {}]
    /\ UNCHANGED <<single_vars, rc>>

\* A: one pass of call_method's loop around flush
P2pCallFlush ==
    /\ p2p.a_pc = "flushing"
    /\ \E f \in try_flush(p2p.a_out, "connected") :
          p2p' = [p2p EXCEPT
                !.a_out = f.out,
                !.to_b = @ \o Written(p2p.a_out, f.out),
                !.a_pc = IF f.res = "Ok" THEN "awaiting" ELSE "flushing"]
    /\ UNCHANGED <<single_vars, rc>>

\* A: one pass of call_method's receive loop
P2pCallReceive ==
    /\ p2p.a_pc = "awaiting"
    /\ LET r == receive_message(p2p.a_queue, p2p.to_a, NoHandler, "connected") IN
       IF r.res = "WouldBlock"
       THEN UNCHANGED p2p
       ELSE LET m == The(r.msg)
                c == call_method_step(m, r.queue, p2p.a_tmp, max_queued, p2p.a_call)
            IN p2p' = [p2p EXCEPT
                  !.to_a = r.in,
                  !.a_queue = c.queue,
                  !.a_tmp = IF c.ret = "none" THEN c.tmp ELSE <<>>,
                  !.a_pc = IF c.ret = "none" THEN "awaiting" ELSE "idle",
                  !.a_res = IF c.ret = "none" THEN "pending" ELSE c.ret,
                  !.a_got = IF c.ret = "none" THEN {} ELSE {m}]
    /\ UNCHANGED <<single_vars, rc>>

\* B: receive_message
P2pReceive ==
    /\ LET r == receive_message(p2p.b_queue, p2p.to_b, NoHandler, "connected") IN
          /\ r.res = "Ok"
          /\ p2p' = [p2p EXCEPT
                !.to_b = r.in,
                !.b_queue = r.queue,
                !.b_taken = @ \cup r.msg]
    /\ UNCHANGED <<single_vars, rc>>

\* B's send_message(m), with what it writes
P2pSend(m, more) ==
    \E o \in send_message(m, p2p.b_serial, cap_unix_fd, p2p.b_out, "connected") :
       /\ o.res = "Ok"
       /\ p2p' = [more EXCEPT
             !.b_serial = o.cell,
             !.b_out = o.out,
             !.to_a = @ \o Written(enqueue_message(p2p.b_out,
                                      [m EXCEPT !.serial = The(o.ret)]), o.out)]

\* B: reply as it would be if it left out the REPLY_SERIAL
P2pReply_no_reply_serial(call, body) ==
    /\ call.serial \notin {e.call.serial : e \in p2p.b_replied}
    /\ P2pSend([Message(0, "MethodReturn", {}, 0) EXCEPT !.body = body],
               [p2p EXCEPT !.b_replied = @ \cup {[call |-> call, body |-> body]}])
    /\ UNCHANGED <<single_vars, rc>>

\* B: reply(call, body), once for a call
P2pReply(call, body) ==
    /\ call.serial \notin {e.call.serial : e \in p2p.b_replied}
    /\ P2pSend([Message(0, "MethodReturn", {call.serial}, 0) EXCEPT !.body = body],
               [p2p EXCEPT !.b_replied = @ \cup {[call |-> call, body |-> body]}])
    /\ UNCHANGED <<single_vars, rc>>

\* B: emit_signal
P2pEmitSignal ==
    /\ p2p.b_signals < MaxP2pSignals
    /\ P2pSend(Message(0, "Signal", {}, 0), [p2p EXCEPT !.b_signals = @ + 1])
    /\ UNCHANGED <<single_vars, rc>>

\* B: flush
P2pFlush ==
    /\ \E f \in try_flush(p2p.b_out, "connected") :
          p2p' = [p2p EXCEPT
                !.b_out = f.out,
                !.to_a = @ \o Written(p2p.b_out, f.out)]
    /\ UNCHANGED <<single_vars, rc>>

\* ------------------------------------------------------------ specifications
\* the caller configures the connection
Configure ==
    \/ \E n \in 0..MaxQueuedArg : SetMaxQueued(n)
    \/ \E h \in HandlerKinds : SetDefaultMessageHandler(h)
    \/ ResetDefaultMessageHandler

\* the caller calls methods
Call ==
    \/ \E f \in 0..MaxFds : Len(serials) < MaxSends /\ CallMethod(f)
    \/ CallFlush
    \/ CallReceive

Peer == \E s \in PeerShapes : PeerSend(s[1], s[2])

\* The receiving side: the peer sends, the caller configures the connection,
\* receives messages and calls methods.
Next ==
    \/ Configure
    \/ ReceiveMessage
    \/ Call
    \/ Peer

Spec == Init /\ [][Next]_vars

\* The sending side: the caller sends messages, signals and replies, flushes
\* and calls methods on a connection it leaves configured as constructed.
NextSend ==
    \/ \E f \in 0..MaxFds : Len(serials) < MaxSends /\ SendMessage(f)
    \/ Len(serials) < MaxSends /\ EmitSignal
    \/ \E call \in Calls(taken) : Len(serials) < MaxSends /\ Reply(call)
    \/ \E call \in Calls(taken) : Len(serials) < MaxSends /\ ReplyError(call)
    \/ Flush
    \/ ReceiveMessage
    \/ Call
    \/ Peer

SpecSend == Init /\ [][NextSend]_vars

\* A connection that sends until the serial counter has wrapped.
NextWrap ==
    \/ \E f \in 0..MaxFds : Len(serials) < WrapSends /\ SendMessage(f)
    \/ Len(serials) < WrapSends /\ EmitSignal
    \/ Flush

SpecWrap == Init /\ [][NextWrap]_vars

\* A connection whose peer may hang up: the caller sends, flushes, receives
\* and calls methods, before and after.
NextIo ==
    \/ Len(serials) < MaxIoSends /\ SendMessage(0)
    \/ Flush
    \/ ReceiveMessage
    \/ Len(serials) < MaxIoSends /\ CallMethod(0)
    \/ CallFlush
    \/ CallReceive
    \/ peer_serial < MaxIoPeerMsgs /\ Peer
    \/ PeerHangup

SpecIo == Init /\ [][NextIo]_vars

\* new_unix_client from the handshake on, and what the caller does with the
\* connection it gets: it sets the unique name, sends and receives.
NextBus ==
    \/ Handshake
    \/ NewAuthenticatedUnix
    \/ NewAuthenticatedUnixBus
    \/ phase = "Hello" /\ call_res = "none" /\ CallMethod(0)
    \/ phase = "Hello" /\ CallFlush
    \/ phase = "Hello" /\ CallReceive
    \/ HelloDone
    \/ \E name \in Names : SetUniqueName(name)
    \/ phase = "Ready" /\ Len(serials) < MaxBusSends /\ SendMessage(0)
    \/ phase = "Ready" /\ ReceiveMessage
    \/ phase \in {"Hello", "Ready"} /\ peer_serial < MaxBusPeerMsgs /\ Peer
    \/ phase \in {"Hello", "Ready"} /\ PeerHangup

SpecBus == InitNew /\ [][NextBus]_vars

\* The threads of the two connections of a socket pair, in any interleaving.
NextP2p ==
    \/ P2pCallMethod
    \/ P2pCallFlush
    \/ P2pCallReceive
    \/ P2pReceive
    \/ \E call \in Calls(p2p.b_taken) : \E body \in Bodies : P2pReply(call, body)
    \/ P2pEmitSignal
    \/ P2pFlush

SpecP2p == InitP2p /\ [][NextP2p]_vars

\* A connection with a handler that sends: the caller installs and removes
\* it, receives and flushes.
NextNested ==
    \/ \E h \in SendingKinds : SetDefaultMessageHandler(h)
    \/ ResetDefaultMessageHandler
    \/ ReceiveMessage
    \/ Flush
    \/ peer_serial < MaxNestedPeerMsgs /\ Peer

SpecNested == Init /\ [][NextNested]_vars

\* The caller installs, replaces and removes the handler between calls of
\* receive_message.
NextHook ==
    \/ \E h \in ReplacingKinds : SetDefaultMessageHandler(h)
    \/ ResetDefaultMessageHandler
    \/ ReceiveMessage
    \/ peer_serial < MaxHookPeerMsgs /\ Peer

SpecHook == Init /\ [][NextHook]_vars

\* A connection with a handler that calls back into the connection: the
\* caller sends, installs and removes the handler and receives; the peer
\* sends and may hang up.
NextReentry ==
    \/ Len(serials) < MaxSends /\ SendMessage(0)
    \/ \E h \in ReentrantKinds : SetDefaultMessageHandler(h)
    \/ ResetDefaultMessageHandler
    \/ ReceiveMessage
    \/ peer_serial < MaxReentryPeerMsgs /\ Peer
    \/ PeerHangup

SpecReentry == Init /\ [][NextReentry]_vars

\* A connection whose max_queued is set when it is instantiated, before
\* anything is sent or received, and is left alone afterwards.
NextQueue ==
    \/ \E n \in 0..MaxQueueBound :
          peer_serial = 0 /\ serials = <<>> /\ SetMaxQueued(n)
    \/ \E h \in HandlerKinds : SetDefaultMessageHandler(h)
    \/ ResetDefaultMessageHandler
    \/ ReceiveMessage
    \/ Call
    \/ Peer

SpecQueue == Init /\ [][NextQueue]_vars

\* the peer sends a METHOD_RETURN whose REPLY_SERIAL is the serial that the
\* next message of this side will get
PeerSendAhead == PeerSend("MethodReturn", {serial})

\* A connection with max_queued set when it is instantiated, and a peer that
\* may also answer a call before it is made.
NextAhead ==
    \/ \E n \in 0..MaxQueueBound :
          peer_serial = 0 /\ serials = <<>> /\ SetMaxQueued(n)
    \/ ReceiveMessage
    \/ Call
    \/ Peer
    \/ PeerSendAhead

SpecAhead == Init /\ [][NextAhead]_vars

\* the peer has sent the METHOD_RETURN or ERROR that answers the call in
\* progress
Replied ==
    \E m \in Range(raw_in) \cup UNION {e.raw : e \in Range(call_rx)} :
        m.reply_serial = {call_serial} /\ m.type \in {"MethodReturn", "Error"}

\* the peer answers the call in progress, once
PeerReply ==
    /\ pc \in {"flushing", "awaiting"}
    /\ ~Replied
    /\ \E t \in {"MethodReturn", "Error"} : PeerSend(t, {call_serial})

\* the replies the peer has sent: one for each call, but for a call in
\* progress that is not answered yet
LiveReplies ==
    Len(serials) - (IF pc \in {"flushing", "awaiting"} /\ ~Replied THEN 1 ELSE 0)

\* the peer sends a message that is not the reply to the call in progress:
\* a call, a signal, or a signal with the reply serial of the latest call;
\* of the MaxPeerMsgs messages it may send it keeps one for each reply
PeerNoise ==
    /\ peer_serial - LiveReplies < MaxLiveNoise
    /\ peer_serial - LiveReplies < MaxPeerMsgs - MaxSends
    /\ \E s \in PeerShapes : s[1] \notin {"MethodReturn", "Error"} /\ PeerSend(s[1], s[2])

\* A caller that calls methods on a connection configured when it was
\* instantiated, and a peer that answers every call and sends other
\* messages before the answer.
NextLive ==
    \/ \E n \in 0..MaxQueuedArg :
          peer_serial = 0 /\ serials = <<>> /\ SetMaxQueued(n)
    \/ \E h \in HandlerKinds :
          peer_serial = 0 /\ serials = <<>> /\ SetDefaultMessageHandler(h)
    \/ Len(serials) < MaxSends /\ CallMethod(0)
    \/ CallFlush
    \/ CallReceive
    \/ PeerNoise
    \/ PeerReply

\* The transport is scheduled fairly: a flush that can write does write in
\* the end, a message that has arrived is read, and the peer sends its
\* reply.
SpecLive ==
    /\ Init
    /\ [][NextLive]_vars
    /\ WF_vars(CallFlush)
    /\ WF_vars(CallReceive)
    /\ WF_vars(PeerReply)

\* ---------------------------------------------------------------- handshake
\* new_unix_client(stream, false) has been called: nothing is authenticated
\* and there is no handoff yet
InitAuth ==
    /\ Constructed
    /\ ~cap_unix_fd
    /\ last = Label("new_unix_client", "pending", {}, {}, {}, "none", <<>>)
    /\ phase = "New"
    /\ bus_connection = FALSE
    /\ p2p = <<>>
    /\ rc = <<>>

\* a Guid on the wire: 32 lowercase hexadecimal characters
ValidGuid(g) == Len(g) = GuidLen /\ \A i \in 1..Len(g) : g[i] \in HexLower

\* ClientHandshake::new(stream).blocking_finish(): the server answers
\* OK <guid> to AUTH EXTERNAL and ans to NEGOTIATE_UNIX_FD; the handoff
\* carries the Guid and whether the server agreed (answer keeps the line
\* that was received)
ClientHandshake(guid, ans) ==
    /\ phase = "New"
    /\ IF ValidGuid(guid)
       THEN /\ phase' = "Authenticated"
            /\ auth' = {[server_guid |-> guid,
                         cap_unix_fd |-> (ans = "AGREE_UNIX_FD"),
                         answer |-> ans]}
            /\ UNCHANGED last
       ELSE /\ phase' = "Failed"
            /\ last' = Label("new_unix_client", "Handshake", {}, {}, {}, "none", <<>>)
            /\ UNCHANGED auth
    /\ UNCHANGED <<raw_out, raw_in, pc, peer_serial, serials, taken, handler_arg,
                   sock, bus_connection, p2p, rc, server_guid, unique_name>>
    /\ UNCHANGED conn_vars
    /\ UNCHANGED call_vars

\* new_authenticated_unix as it would be if it left the capability off
new_authenticated_unix_no_fd(a) ==
    [server_guid |-> a.server_guid, cap_unix_fd |-> FALSE, serial |-> 1,
     unique_name |-> {}, incoming_queue |-> <<>>,
     max_queued |-> DEFAULT_MAX_QUEUED, default_msg_handler |-> NoHandler]

\* new_authenticated_unix(auth): the fields of the ConnectionInner
new_authenticated_unix(a) ==
    [server_guid |-> a.server_guid, cap_unix_fd |-> a.cap_unix_fd, serial |-> 1,
     unique_name |-> {}, incoming_queue |-> <<>>,
     max_queued |-> DEFAULT_MAX_QUEUED, default_msg_handler |-> NoHandler]

\* new_unix_client, bus_connection false: Ok(new_authenticated_unix(auth))
NewAuthenticatedUnixAuth ==
    /\ phase = "Authenticated"
    /\ ~bus_connection
    /\ LET c == new_authenticated_unix(The(auth))
       IN /\ server_guid' = c.server_guid
          /\ cap_unix_fd' = c.cap_unix_fd
          /\ serial' = c.serial
          /\ unique_name' = c.unique_name
          /\ incoming_queue' = c.incoming_queue
          /\ max_queued' = c.max_queued
          /\ default_msg_handler' = c.default_msg_handler
    /\ phase' = "Ready"
    /\ last' = Label("new_unix_client", "Ok", {}, {}, {}, "none", <<>>)
    /\ UNCHANGED <<raw_out, raw_in, pc, peer_serial, serials, taken, handler_arg,
                   sock, bus_connection, p2p, rc, auth>>
    /\ UNCHANGED call_vars

\* new_unix_client from the handshake on, and what the caller does with the
\* connection it gets: it configures it, sends, flushes and receives.
NextAuth ==
    \/ \E guid \in OfferedGuids, ans \in FdAnswers : ClientHandshake(guid, ans)
    \/ NewAuthenticatedUnixAuth
    \/ \E n \in 0..MaxQueuedArg : phase = "Ready" /\ SetMaxQueued(n)
    \/ \E h \in HandlerKinds : phase = "Ready" /\ SetDefaultMessageHandler(h)
    \/ \E f \in 0..MaxFds :
          phase = "Ready" /\ Len(serials) < MaxAuthSends /\ SendMessage(f)
    \/ phase = "Ready" /\ Flush
    \/ phase = "Ready" /\ ReceiveMessage
    \/ phase = "Ready" /\ peer_serial < MaxAuthPeerMsgs /\ Peer

SpecAuth == InitAuth /\ [][NextAuth]_vars

\* ------------------------------------------------------------------ clones
\* Clone for Connection as it would be if it copied the ConnectionInner
clone_copies(ptrs, inners, h) ==
    [ptrs |-> Append(ptrs, Len(inners) + 1),
     inners |-> Append(inners, inners[ptrs[h]])]

\* #[derive(Clone)] on Connection(Rc<ConnectionInner>): Rc::clone, a new
\* handle to the same ConnectionInner
clone(ptrs, inners, h) == [ptrs |-> Append(ptrs, ptrs[h]), inners |-> inners]

\* one Connection, its ConnectionInner and the history of what was done
\* through each handle
RcStart ==
    [ptrs |-> <<1>>,
     inners |-> <<[serial |-> 1, incoming_queue |-> <<>>,
                   max_queued |-> DEFAULT_MAX_QUEUED,
                   default_msg_handler |-> NoHandler,
                   raw_out |-> <<>>, raw_in |-> <<>>]>>,
     call |-> {},          \* handle and serial of the call_method in progress
     tmp |-> <<>>,         \* its tmp_queue
     peer |-> 0,           \* messages the peer has sent
     sent |-> <<>>,        \* handle and serial of every message sent
     queued |-> {},        \* handle and message of what call_method queued
     got |-> {}]           \* handle and message of what receive_message returned

InitRc ==
    /\ Constructed
    /\ last = Label("new", "Ok", {}, {}, {}, "none", <<>>)
    /\ phase = "Ready"
    /\ bus_connection = FALSE
    /\ p2p = <<>>
    /\ rc = RcStart

Handles == 1..Len(rc.ptrs)
\* the ConnectionInner behind a handle (self.0)
Inner(h) == rc.inners[rc.ptrs[h]]

\* Connection::clone
RcClone(h) ==
    /\ rc.call = {}
    /\ Len(rc.ptrs) < MaxClones
    /\ LET c == clone(rc.ptrs, rc.inners, h)
       IN rc' = [rc EXCEPT !.ptrs = c.ptrs, !.inners = c.inners]
    /\ UNCHANGED <<single_vars, p2p>>

\* set_max_queued through a handle
RcSetMaxQueued(h, n) ==
    /\ rc.call = {}
    /\ rc' = [rc EXCEPT !.inners[rc.ptrs[h]].max_queued = n]
    /\ UNCHANGED <<single_vars, p2p>>

\* set_default_message_handler (k a closure) or
\* reset_default_message_handler (k = NoHandler) through a handle
RcSetDefaultMessageHandler(h, k) ==
    /\ rc.call = {}
    /\ rc' = [rc EXCEPT !.inners[rc.ptrs[h]].default_msg_handler = k]
    /\ UNCHANGED <<single_vars, p2p>>

\* send_message through a handle
RcSendMessage(h) ==
    /\ rc.call = {}
    /\ Len(rc.sent) < MaxRcSends
    /\ \E o \in send_message(Message(0, "MethodCall", {}, 0), Inner(h).serial,
                              cap_unix_fd, Inner(h).raw_out, "connected") :
          /\ o.res = "Ok"
          /\ rc' = [rc EXCEPT !.inners[rc.ptrs[h]].serial = o.cell,
                              !.inners[rc.ptrs[h]].raw_out = o.out,
                              !.sent = Append(@, [h |-> h, serial |-> The(o.ret)])]
    /\ UNCHANGED <<single_vars, p2p>>

\* call_method through a handle, up to the end of its flush loop
RcCallMethod(h) ==
    /\ rc.call = {}
    /\ Len(rc.sent) < MaxRcSends
    /\ \E o \in send_message(Message(0, "MethodCall", {}, 0), Inner(h).serial,
                              cap_unix_fd, Inner(h).raw_out, "connected") :
          /\ o.res = "Ok"
          /\ rc' = [rc EXCEPT !.inners[rc.ptrs[h]].serial = o.cell,
                              !.inners[rc.ptrs[h]].raw_out = <<>>,
                              !.sent = Append(@, [h |-> h, serial |-> The(o.ret)]),
                              !.call = {[h |-> h, serial |-> The(o.ret)]},
                              !.tmp = <<>>]
    /\ UNCHANGED <<single_vars, p2p>>

\* one pass of the loop of the call_method in progress, the read waiting
\* until there is a message
RcCallReceive ==
    /\ rc.call # {}
    /\ LET h == The(rc.call).h
           r == receive_message(Inner(h).incoming_queue, Inner(h).raw_in,
                                Inner(h).default_msg_handler, "connected")
       IN /\ r.res \in {"Ok", "Continue"}
          /\ IF r.res = "Continue"
             THEN rc' = [rc EXCEPT !.inners[rc.ptrs[h]].incoming_queue = r.queue,
                                   !.inners[rc.ptrs[h]].raw_in = r.in]
             ELSE LET c == call_method_step(The(r.msg), r.queue, rc.tmp,
                                            Inner(h).max_queued, The(rc.call).serial)
                  IN rc' = [rc EXCEPT
                        !.inners[rc.ptrs[h]].incoming_queue = c.queue,
                        !.inners[rc.ptrs[h]].raw_in = r.in,
                        !.tmp = c.tmp,
                        !.call = IF c.ret = "none" THEN @ ELSE {},
                        !.queued = @ \cup {[h |-> h, msg |-> m] :
                                             m \in Range(c.queue) \ Range(r.queue)}]
    /\ UNCHANGED <<single_vars, p2p>>

\* receive_message through a handle, the read waiting until there is a
\* message
RcReceiveMessage(h) ==
    /\ rc.call = {}
    /\ LET r == receive_message(Inner(h).incoming_queue, Inner(h).raw_in,
                                Inner(h).default_msg_handler, "connected")
       IN /\ r.res \in {"Ok", "Continue"}
          /\ rc' = [rc EXCEPT !.inners[rc.ptrs[h]].incoming_queue = r.queue,
                              !.inners[rc.ptrs[h]].raw_in = r.in,
                              !.got = @ \cup {[h |-> h, msg |-> m, src |-> r.src] :
                                              m \in r.msg}]
    /\ UNCHANGED <<single_vars, p2p>>

\* the peer of the socket sends a signal, or the reply to the call in
\* progress
RcPeerSend ==
    /\ rc.peer < MaxRcPeerMsgs
    /\ Len(rc.inners[1].raw_in) < MaxInFlight
    /\ \E m \in {Message(rc.peer + 1, "Signal", {}, 0)}
                \cup {Message(rc.peer + 1, "MethodReturn", {c.serial}, 0) :
                        c \in rc.call} :
          rc' = [rc EXCEPT !.inners[1].raw_in = Append(@, m), !.peer = @ + 1]
    /\ UNCHANGED <<single_vars, p2p>>

\* A connection and its clones in one thread: every operation goes through
\* one of the handles.
NextRc ==
    \/ \E h \in Handles : RcClone(h)
    \/ \E h \in Handles, n \in 0..MaxQueuedArg : RcSetMaxQueued(h, n)
    \/ \E h \in Handles, k \in HandlerKinds \cup {NoHandler} :
          RcSetDefaultMessageHandler(h, k)
    \/ \E h \in Handles : RcSendMessage(h)
    \/ \E h \in Handles : RcCallMethod(h)
    \/ RcCallReceive
    \/ \E h \in Handles : RcReceiveMessage(h)
    \/ RcPeerSend

SpecRc == InitRc /\ [][NextRc]_vars

TypeOK ==
    /\ serial \in 0..U32Max
    /\ pc \in {"idle", "receiving", "flushing", "awaiting", "panicked"}
    /\ max_queued \in 0..DEFAULT_MAX_QUEUED
    /\ default_msg_handler \in ReplacingKinds \cup SendingKinds \cup ReentrantKinds
                                \cup {NoHandler}
    /\ sock \in {"connected", "broken"}
    /\ phase \in {"New", "Authenticated", "Hello", "Ready", "Failed"}
    /\ Cardinality(unique_name) <= 1

\* ------------------------------------------------------------------- claims
Min(a, b) == IF a < b THEN a ELSE b

\* the latest call_method has returned its reply and no other was started
CallReturned == call_res \in {"Ok", "MethodError"}

Unrelated(m) == m.reply_serial # {call_serial}

\* the messages with another reply serial that the transport delivered during
\* the latest call_method, in order, as the peer sent them
DeliveredUnrelated ==
    LET sel == SelectSeq(call_rx, LAMBDA e : e.src = "transport" /\ Unrelated(The(e.raw)))
    IN [i \in 1..Len(sel) |-> The(sel[i].raw)]

\* the messages with another reply serial that receive_message handed to the
\* latest call_method from the transport, in order, as the handler left them
HandedUnrelated ==
    LET sel == SelectSeq(call_rx, LAMBDA e : e.src = "transport" /\ e.msg # {}
                                              /\ Unrelated(The(e.msg)))
    IN [i \in 1..Len(sel) |-> The(sel[i].msg)]

\* m is in the incoming queue or a receive_message has returned it
Retrievable(m) == m \in Range(incoming_queue) \cup taken

\* the message the peer sent as m is retrievable, as it was or as the handler
\* changed it
RetrievableSent(m) == \E x \in Range(incoming_queue) \cup taken : x.serial = m.serial

C2_FirstNOfDelivered ==
    (CallReturned /\ call_at.queue = <<>>
        /\ Len(DeliveredUnrelated) > call_at.max_queued) =>
        \A i \in 1..Len(DeliveredUnrelated) :
            RetrievableSent(DeliveredUnrelated[i]) <=> i <= call_at.max_queued

\* C2 amended: the same of the unrelated messages that receive_message handed
\* to call_method (those the handler did not consume).
C2_FirstNOfHanded ==
    (CallReturned /\ call_at.queue = <<>>
        /\ Len(HandedUnrelated) > call_at.max_queued) =>
        \A i \in 1..Len(HandedUnrelated) :
            Retrievable(HandedUnrelated[i]) <=> i <= call_at.max_queued

\* C2 witness: max_queued is 1, two unrelated messages were handed to the call
\* and the one kept has been received.
C2_Witness ==
    /\ CallReturned
    /\ call_at.queue = <<>>
    /\ call_at.max_queued = 1
    /\ Len(HandedUnrelated) = 2
    /\ HandedUnrelated[1] \in taken
    /\ incoming_queue = <<>>

\* a step of an operation of the connection that is no reconfiguration (the
\* peer and the setters leave the label of the latest step alone)
OpStep ==
    /\ peer_serial' = peer_serial
    /\ default_msg_handler' = default_msg_handler
    /\ max_queued' = max_queued

\* C3 as stated: the serials that next_serial returned are strictly
\* increasing and none is zero, however many messages were sent.
C3_StrictlyIncreasing ==
    /\ \A i, j \in 1..Len(serials) : i < j => serials[i] < serials[j]
    /\ \A i \in 1..Len(serials) : serials[i] # 0

\* C4: the first serial is 1 and every allocation returns the previous value
\* plus 1, whichever operation allocates; the caller gets the allocated value.
C4_Consecutive ==
    /\ \A i \in 1..Len(serials) : serials[i] = i
    /\ serial = Len(serials) + 1
    /\ (last.res = "Ok" /\ last.ret # {}) => last.ret = {serials[Len(serials)]}

\* C4 witness: a reply got a serial after another allocation.
C4_Witness ==
    /\ Len(serials) >= 2
    /\ last.op = "reply"
    /\ last.res = "Ok"

\* C5 as stated: the allocator never yields 0 and never aborts.
C5_NoZeroNoAbort ==
    /\ pc # "panicked"
    /\ 0 \notin Range(serials)

\* C6: send_message of a message with file descriptors on a connection
\* without cap_unix_fd returns Unsupported and changes nothing: the counter,
\* the outbound buffer (so nothing was enqueued or flushed) and the rest of
\* the connection stay as they were.  call_method hands the error on.
C6_UnsupportedNoEffect ==
    [][(/\ OpStep
        /\ pc = "idle"
        /\ ~cap_unix_fd
        /\ last'.op \in {"send_message", "call_method"}
        /\ \E m \in last'.arg : m.fds > 0)
       => (/\ last'.res = "Unsupported"
           /\ last'.ret = {}
           /\ UNCHANGED <<serial, raw_out, serials, raw_in, pc, incoming_queue,
                          cap_unix_fd, taken>>)]_vars

\* C6 witness: a send_message was refused while the outbound buffer held an
\* unwritten message.
C6_Witness ==
    /\ last.op = "send_message"
    /\ last.res = "Unsupported"
    /\ raw_out # <<>>
    /\ serial = 2

\* an entry of call_rx that is a METHOD_RETURN or ERROR for the awaited serial
IsReply(e) ==
    /\ e.msg # {}
    /\ The(e.msg).reply_serial = {call_serial}
    /\ The(e.msg).type \in {"MethodReturn", "Error"}

\* C7: call_method returns on the first message it receives that is a
\* METHOD_RETURN or ERROR for its serial, Ok for the former and MethodError for
\* the latter, and returns that message.
C7_ReplyDecides ==
    /\ call_res = "pending" => \A i \in 1..Len(call_rx) : ~IsReply(call_rx[i])
    /\ CallReturned =>
          /\ call_rx # <<>>
          /\ IsReply(call_rx[Len(call_rx)])
          /\ \A i \in 1..(Len(call_rx) - 1) : ~IsReply(call_rx[i])
          /\ call_res = "Ok" <=> The(call_rx[Len(call_rx)].msg).type = "MethodReturn"
          /\ call_res = "MethodError" <=> The(call_rx[Len(call_rx)].msg).type = "Error"
    /\ (last.op = "call_method" /\ last.res \in {"Ok", "MethodError"}) =>
          /\ last.res = call_res
          /\ last.msg = call_rx[Len(call_rx)].msg
          /\ \A m \in last.msg : m.reply_serial = {call_serial}

\* C7 witness: call_method returned MethodError after it had received another
\* message.
C7_Witness ==
    /\ last.op = "call_method"
    /\ last.res = "MethodError"
    /\ Len(call_rx) >= 2

\* C8 as stated: a message that receive_message takes from the queue was read
\* from the transport before every message it leaves in the queue.
C8_OldestFirst ==
    (last.op = "receive_message" /\ last.src = "queue") =>
        \A m \in last.msg : \A x \in Range(incoming_queue) : m.serial < x.serial

\* q without its i-th element
Without(q, i) == SubSeq(q, 1, i - 1) \o SubSeq(q, i + 1, Len(q))

\* C9: with a message in the queue, receive_message (called directly or by
\* call_method) takes one message of the queue, reads nothing from the
\* transport and does not call the handler; called directly it returns that
\* message.
C9_QueueFirst ==
    [][(/\ OpStep
        /\ incoming_queue # <<>>
        /\ \/ pc = "idle" /\ last'.op = "receive_message"
           \/ pc = "awaiting" /\ last'.op = "call_method")
       => (/\ raw_in' = raw_in
           /\ last'.hook = <<>>
           /\ last'.src = "queue"
           /\ pc = "idle" =>
                 \E i \in 1..Len(incoming_queue) :
                    /\ last'.res = "Ok"
                    /\ last'.msg = {incoming_queue[i]}
                    /\ incoming_queue' = Without(incoming_queue, i)
                    /\ taken' = taken \cup {incoming_queue[i]})]_vars

\* C9 witness: receive_message returned a message of the queue while the
\* transport had a message and a handler was installed.
C9_Witness ==
    /\ last.op = "receive_message"
    /\ last.src = "queue"
    /\ raw_in # <<>>
    /\ default_msg_handler # NoHandler

\* C10: with an empty queue, receive_message reads one message from the
\* transport.  With a handler installed it calls the handler once, with that
\* message: Some(m) is returned to the caller, None consumes the message and
\* receive_message reads again.  With no handler the message is returned.
C10_HandlerDecides ==
    [][(/\ OpStep
        /\ pc \in {"idle", "receiving"}
        /\ last'.op = "receive_message"
        /\ incoming_queue = <<>>
        /\ raw_in # <<>>)
       => (/\ raw_in' = Tail(raw_in)
           /\ incoming_queue' = <<>>
           /\ IF default_msg_handler = NoHandler
              THEN /\ last'.hook = <<>>
                   /\ last'.res = "Ok"
                   /\ last'.msg = {Head(raw_in)}
                   /\ pc' = "idle"
                   /\ taken' = taken \cup {Head(raw_in)}
              ELSE /\ Len(last'.hook) = 1
                   /\ last'.hook[1].arg = Head(raw_in)
                   /\ last'.hook[1].ret = HandlerResult(default_msg_handler, Head(raw_in))
                   /\ IF last'.hook[1].ret # {}
                      THEN /\ last'.res = "Ok"
                           /\ last'.msg = last'.hook[1].ret
                           /\ pc' = "idle"
                           /\ taken' = taken \cup last'.hook[1].ret
                      ELSE /\ last'.res = "Continue"
                           /\ last'.msg = {}
                           /\ pc' = "receiving"
                           /\ taken' = taken)]_vars

\* C10 witness: the handler has consumed a message, and receive_message had
\* returned a message that the handler changed.
C10_Witness ==
    /\ last.op = "receive_message"
    /\ last.res = "Continue"
    /\ pc = "receiving"
    /\ \E m \in taken : m.body = "replaced"

\* C11: the handler that receive_message calls for a message of the transport
\* is the one of the latest set_default_message_handler, and no other; after
\* reset_default_message_handler (and on a new connection) no handler is
\* called and the message of the transport is returned as it is.
C11_LatestHookOnly ==
    [][(/\ OpStep
        /\ handler_arg' = handler_arg
        /\ pc \in {"idle", "receiving"}
        /\ last'.op = "receive_message"
        /\ incoming_queue = <<>>
        /\ raw_in # <<>>)
       => IF handler_arg = NoHandler
          THEN /\ last'.hook = <<>>
               /\ last'.res = "Ok"
               /\ last'.msg = {Head(raw_in)}
          ELSE /\ Len(last'.hook) = 1
               /\ last'.hook[1].fn = handler_arg
               /\ last'.hook[1].ret = HandlerResult(handler_arg, Head(raw_in))
               /\ last'.msg = HandlerResult(handler_arg, Head(raw_in))]_vars

\* C11 witness: the first handler changed a method call, a second handler
\* replaced it and was called for the next message, and after the reset a
\* message came back unchanged.
C11_Witness ==
    /\ last.op = "receive_message"
    /\ last.hook = <<>>
    /\ last.src = "transport"
    /\ last.msg # {}
    /\ \E m \in taken : m.body = "replaced"
    /\ \E m \in taken : m.body = "stamped"
    /\ \E m \in taken : m.body = "orig" /\ m \in last.msg

\* a step in which send_message (called directly) allocated a serial
SendMessageStep ==
    /\ OpStep
    /\ sock' = sock
    /\ pc = "idle"
    /\ serials' # serials
    /\ last'.op = "send_message"
    /\ last'.res # "panic"

\* C12: send_message enqueues the message with the allocated serial and
\* flushes once: what stays in the outbound buffer is an end of the buffer
\* with the new message.  If the flush wrote everything or reported
\* WouldBlock, send_message returns Ok(serial), and after a WouldBlock the
\* message is still in the buffer; an I/O error of the flush is returned
\* (here: the peer has hung up) and no WouldBlock ever is.
C12_FlushOnce ==
    [][SendMessageStep =>
        LET m == [The(last'.arg) EXCEPT !.serial = serial]
            buf == Append(raw_out, m)
        IN /\ last'.res \in {"Ok", "Io"}
           /\ \E k \in 0..Len(buf) : raw_out' = SubSeq(buf, k + 1, Len(buf))
           /\ last'.res = "Ok" => last'.ret = {serial}
           /\ last'.res = "Io" <=> sock = "broken"
           /\ last'.res = "Io" => raw_out' = buf /\ last'.ret = {}]_vars

\* C12 witness: send_message returned Ok(2) and the message with serial 2 is
\* still in the outbound buffer, behind the one with serial 1.
C12_Witness ==
    /\ last.op = "send_message"
    /\ last.res = "Ok"
    /\ last.ret = {2}
    /\ Len(raw_out) = 2
    /\ raw_out[2].serial = 2

\* a step of receive_message called by the caller
ReceiveMessageStep ==
    /\ OpStep
    /\ handler_arg' = handler_arg
    /\ sock' = sock
    /\ pc \in {"idle", "receiving"}
    /\ last'.op = "receive_message"

\* C13: with an empty queue and nothing to read on a socket that is
\* connected, receive_message returns WouldBlock and leaves the queue, the
\* serial counter, the handler and the socket's unread messages as they were;
\* the receive_message that follows a WouldBlock once a message has arrived
\* reads that message (and returns it, or gives it to the handler).
C13_WouldBlockKeeps ==
    [][ReceiveMessageStep =>
        /\ (incoming_queue = <<>> /\ raw_in = <<>> /\ sock = "connected") =>
              /\ last'.res = "WouldBlock"
              /\ last'.msg = {}
              /\ pc' = "idle"
              /\ UNCHANGED <<incoming_queue, serial, default_msg_handler, raw_in,
                             raw_out, taken>>
        /\ (last.op = "receive_message" /\ last.res = "WouldBlock" /\ raw_in # <<>>) =>
              /\ raw_in' = Tail(raw_in)
              /\ IF default_msg_handler = NoHandler
                 THEN last'.res = "Ok" /\ last'.msg = {Head(raw_in)}
                 ELSE last'.hook[1].arg = Head(raw_in)]_vars

\* C13 witness: receive_message returned WouldBlock on a connection with a
\* handler, and the peer's message has arrived since.
C13_Witness ==
    /\ last.op = "receive_message"
    /\ last.res = "WouldBlock"
    /\ incoming_queue = <<>>
    /\ raw_in # <<>>
    /\ default_msg_handler # NoHandler

\* C14: call_method leaves its loops only with the reply (Ok or MethodError)
\* or with an error that is no WouldBlock (here: the I/O error of a socket
\* whose peer has hung up); after a WouldBlock of flush it is still flushing,
\* after one of receive_message still awaiting.
C14_NeverWouldBlock ==
    [][/\ call_res' # "WouldBlock"
       /\ (pc \in {"flushing", "awaiting"} /\ pc' = "idle") =>
             /\ last'.op = "call_method"
             /\ last'.res = call_res'
             /\ call_res' \in {"Ok", "MethodError", "Io"}
             /\ call_res' = "Io" => sock = "broken"
             /\ call_res' \in {"Ok", "MethodError"} =>
                   \E m \in last'.msg : m.reply_serial = {call_serial}
       /\ (pc = "flushing" /\ sock = "connected" /\ raw_out' # <<>>
             /\ last'.op = "call_method" /\ last'.res = "flush") => pc' = "flushing"
       /\ (pc = "awaiting" /\ sock = "connected" /\ incoming_queue = <<>>
             /\ raw_in = <<>> /\ raw_in' = <<>>) => pc' = "awaiting"]_vars

\* C14 witness: a pass of call_method's flush loop got WouldBlock (the message
\* is still in the outbound buffer) and call_method is flushing again.
C14_Witness ==
    /\ pc = "flushing"
    /\ last.op = "call_method"
    /\ last.res = "flush"
    /\ raw_out # <<>>
    /\ call_res = "pending"

\* C15 as stated: once an operation has returned an I/O error that is no
\* WouldBlock, the next operation fails with that error too and leaves the
\* transport (the outbound buffer, the unread messages) and the serial
\* counter alone.
C15_ClosedAfterError ==
    [][(/\ last.res = "Io"
        /\ OpStep
        /\ sock' = sock
        /\ last' # last)
       => (/\ last'.res = "Io"
           /\ UNCHANGED <<raw_out, raw_in, serial>>)]_vars

\* C16: a unique name that is set (by the Hello of the construction or by
\* set_unique_name) never changes; set_unique_name on a connection that has
\* a name returns an error, on one that has none it stores its argument.
C16_WriteOnce ==
    [][/\ unique_name # {} => unique_name' = unique_name
       /\ (last' # last /\ last'.op = "set_unique_name") =>
             IF unique_name = {}
             THEN last'.res = "Ok" /\ unique_name' = last'.arg
             ELSE last'.res = "Err"]_vars

\* C16 witness: on a bus connection, named by the Hello, set_unique_name with
\* another name returned an error and the name is the one of the Hello.
C16_Witness ==
    /\ bus_connection
    /\ last.op = "set_unique_name"
    /\ last.res = "Err"
    /\ unique_name # {}
    /\ unique_name \cap last.arg = {}

\* C17: before the handshake is done and the connection built nothing is
\* allocated or enqueued; during the Hello of a bus connection the only
\* message sent is the call that is awaited; new_unix_client returns a bus
\* connection only after that call (serial 1) has returned Ok and the name
\* is stored, and returns a peer-to-peer connection with no name and nothing
\* sent; when the Hello has failed the result is a Handshake error and there
\* is no connection.
C17_Construction ==
    /\ phase \in {"New", "Authenticated"} =>
          /\ serials = <<>> /\ raw_out = <<>> /\ serial = 1
          /\ call_res = "none" /\ unique_name = {}
    /\ phase = "Hello" =>
          /\ bus_connection
          /\ unique_name = {}
          /\ Len(serials) <= 1
          /\ serials # <<>> => serials = <<1>>
          /\ call_res = "pending" => call_serial = 1
    /\ (phase = "Ready" /\ bus_connection) =>
          /\ unique_name # {}
          /\ serials # <<>> /\ serials[1] = 1 /\ call_serial = 1
          /\ call_res = "Ok"
    /\ (last.op = "new_unix_client" /\ last.res = "Ok") =>
          /\ phase = "Ready"
          /\ ~bus_connection => unique_name = {} /\ serials = <<>> /\ raw_out = <<>>
          /\ bus_connection => Len(serials) = 1 /\ unique_name # {}
    /\ (phase = "Failed" /\ call_res # "none") =>
          /\ call_res \in {"MethodError", "Io"}
          /\ last = Label("new_unix_client", "Handshake", {}, {}, {}, "none", <<>>)
          /\ unique_name = {}
          /\ taken = {}

\* C17 witness: new_unix_client has returned a bus connection; the Hello was
\* answered after another message of the bus, which waits in the queue.
C17_Witness ==
    /\ last.op = "new_unix_client"
    /\ last.res = "Ok"
    /\ bus_connection
    /\ unique_name # {}
    /\ incoming_queue # <<>>

\* the replies of B that are written or waiting to be written, or that A
\* holds
P2pReturns ==
    {m \in Range(p2p.b_out) \cup Range(p2p.to_a) \cup Range(p2p.a_queue)
           \cup Range(p2p.a_tmp) \cup p2p.a_got : m.type = "MethodReturn"}

\* C18: every reply of B carries as REPLY_SERIAL the serial of a call that B
\* got from receive_message; A's call_method never returns an error, and
\* when it returns, it returns the METHOD_RETURN for its serial with the body
\* B gave to reply; while A awaits a call that B has answered, the reply is
\* on its way (in B's buffer or in the socket), neither lost nor queued.
C18_RoundTrip ==
    /\ \A m \in P2pReturns :
          \E e \in p2p.b_replied :
             /\ e.call \in p2p.b_taken
             /\ m.reply_serial = {e.call.serial}
             /\ m.body = e.body
    /\ p2p.a_res \in {"none", "pending", "Ok"}
    /\ p2p.a_res = "Ok" =>
          /\ p2p.a_pc = "idle"
          /\ \E m \in p2p.a_got :
                /\ m.type = "MethodReturn"
                /\ m.reply_serial = {p2p.a_call}
                /\ \E e \in p2p.b_replied :
                      e.call.serial = p2p.a_call /\ e.body = m.body
    /\ (p2p.a_res = "pending" /\ \E e \in p2p.b_replied : e.call.serial = p2p.a_call) =>
          \E m \in Range(p2p.b_out) \cup Range(p2p.to_a) :
             m.type = "MethodReturn" /\ m.reply_serial = {p2p.a_call}

\* C18 witness: A's second call has returned Ok with B's body, after a signal
\* of B that A has kept in its queue.
C18_Witness ==
    /\ p2p.a_res = "Ok"
    /\ p2p.a_call = 2
    /\ \E m \in p2p.a_got : m.body = "yay" /\ m.reply_serial = {2}
    /\ \E m \in Range(p2p.a_queue) : m.type = "Signal"

\* C19 as stated: when call_method returns from its receive loop, with the
\* reply or with an error, every message it had staged is in the incoming
\* queue.
C19_StagedRestored ==
    [][(pc = "awaiting" /\ pc' = "idle")
       => \A i \in 1..Len(tmp_queue) : tmp_queue[i] \in Range(incoming_queue')]_vars

\* C20 as stated: a send_message that the handler makes on its clone of the
\* connection while receive_message runs allocates no serial and enqueues
\* nothing.
C20_NoNestedSend ==
    [][(/\ ReceiveMessageStep
        /\ incoming_queue = <<>>
        /\ raw_in # <<>>
        /\ default_msg_handler \in SendingKinds
        /\ HandlerSends(default_msg_handler, Head(raw_in)) # <<>>)
       => UNCHANGED <<serial, serials, raw_out>>]_vars

\* a step of receive_message in which a handler that calls back into the
\* connection ran
ReentryStep ==
    /\ ReceiveMessageStep
    /\ default_msg_handler \in ReentrantKinds
    /\ last'.hook # <<>>

C22_ClonesShareState ==
    /\ \A i, j \in 1..Len(rc.sent) : i < j => rc.sent[i].serial # rc.sent[j].serial
    /\ \A g, h \in Handles :
          /\ Inner(g).serial = Inner(h).serial
          /\ Inner(g).incoming_queue = Inner(h).incoming_queue
          /\ Inner(g).max_queued = Inner(h).max_queued
          /\ Inner(g).default_msg_handler = Inner(h).default_msg_handler
    /\ \A g \in rc.got :
          g.src = "queue" => \E e \in rc.queued : e.msg = g.msg

\* messages were sent through two handles, and a message that call_method
\* queued through one handle was returned by receive_message through the
\* other, after max_queued and the handler were set through a clone
C22_Witness ==
    /\ \E i, j \in 1..Len(rc.sent) : rc.sent[i].h # rc.sent[j].h
    /\ \E e \in rc.queued : \E g \in rc.got :
          g.msg = e.msg /\ g.src = "queue" /\ g.h # e.h
    /\ Inner(1).max_queued = 1
    /\ Inner(1).default_msg_handler # NoHandler

\* C23: the server_guid and cap_unix_fd of a connection are the values of
\* the handshake's handoff and never change afterwards; the server_guid is
\* 32 lowercase hexadecimal characters, and cap_unix_fd is true exactly if
\* AGREE_UNIX_FD was received in answer to NEGOTIATE_UNIX_FD.
C23_HandoffKept ==
    [][/\ phase' = "Ready" =>
            /\ auth' # {}
            /\ server_guid' = The(auth').server_guid
            /\ cap_unix_fd' = The(auth').cap_unix_fd
            /\ Len(server_guid') = 32
            /\ \A i \in 1..Len(server_guid') : server_guid'[i] \in HexLower
            /\ cap_unix_fd' <=> The(auth').answer = "AGREE_UNIX_FD"
       /\ phase = "Ready" => UNCHANGED <<server_guid, cap_unix_fd, auth>>]_vars

\* a connection whose server agreed to pass file descriptors has sent a
\* message with one, after max_queued was set
C23_Witness ==
    /\ phase = "Ready"
    /\ cap_unix_fd
    /\ server_guid # SomeGuid
    /\ max_queued # DEFAULT_MAX_QUEUED
    /\ last.op = "send_message" /\ last.res = "Ok"
    /\ \E m \in last.arg : m.fds > 0

\* a pass of call_method's loop in which receive_message handed it a
\* message with another reply serial
UnrelatedStep ==
    /\ OpStep
    /\ pc = "awaiting"
    /\ Len(call_rx') = Len(call_rx) + 1
    /\ call_rx'[Len(call_rx')].msg # {}
    /\ Unrelated(The(call_rx'[Len(call_rx')].msg))

\* C24: with max_queued fixed when the connection is instantiated, the
\* length of the incoming queue plus the length of the tmp_queue of a
\* running call_method never exceeds max_queued; call_method stages a
\* message with another reply serial exactly if that sum is below
\* max_queued when the message is received, and drops it otherwise.
C24_QueueBounded ==
    [][/\ Len(incoming_queue') + Len(tmp_queue') <= max_queued'
       /\ UnrelatedStep =>
            LET m == The(call_rx'[Len(call_rx')].msg)
            IN IF Len(incoming_queue') + Len(tmp_queue) < max_queued
               THEN tmp_queue' = Append(tmp_queue, m)
               ELSE /\ tmp_queue' = tmp_queue
                    /\ m \notin Range(incoming_queue')]_vars

\* with max_queued 2, a call_method that started with a message in the
\* queue holds two staged messages and has dropped a third
C24_Witness ==
    /\ max_queued = 2
    /\ pc = "awaiting"
    /\ call_at.queue # <<>>
    /\ Len(incoming_queue) + Len(tmp_queue) = 2
    /\ \E i \in 1..Len(call_rx) :
          /\ call_rx[i].msg # {}
          /\ Unrelated(The(call_rx[i].msg))
          /\ The(call_rx[i].msg) \notin Range(tmp_queue) \cup Range(incoming_queue)

\* the incoming queue after the step holds something that it did not hold
\* at that place before
QueueGains ==
    \/ Len(incoming_queue') > Len(incoming_queue)
    \/ \E i \in 1..Len(incoming_queue') : incoming_queue'[i] # incoming_queue[i]

\* C25: the incoming queue gains messages only in the pass of call_method's
\* loop in which receive_message hands it a message with the awaited reply
\* serial, and what it gains then is the tmp_queue; before that pass no
\* message with another reply serial reaches the queue, and receive_message,
\* send_message and flush never add to it.
C25_GainsOnReplyOnly ==
    [][QueueGains =>
         /\ pc = "awaiting"
         /\ Len(call_rx') = Len(call_rx) + 1
         /\ LET e == call_rx'[Len(call_rx')]
            IN /\ e.msg # {}
               /\ The(e.msg).reply_serial = {call_serial}
               /\ incoming_queue' = (IF e.src = "queue" THEN Front(incoming_queue)
                                     ELSE incoming_queue) \o tmp_queue]_vars

\* call_method has received its reply after messages with another reply
\* serial and moved them to the queue, on a connection that has also sent a
\* message with send_message
C25_Witness ==
    /\ last.op = "call_method"
    /\ call_res = "Ok"
    /\ Len(incoming_queue) >= 2
    /\ \A i \in 1..Len(incoming_queue) : incoming_queue[i].reply_serial # {call_serial}
    /\ Len(serials) = 2

\* e is a message that receive_message handed to call_method with the
\* awaited reply serial and a type that is neither METHOD_RETURN nor ERROR
Noise(e) ==
    /\ e.msg # {}
    /\ The(e.msg).reply_serial = {call_serial}
    /\ The(e.msg).type \notin {"MethodReturn", "Error"}

\* the messages that the running call_method holds, in its tmp_queue or in
\* the queue, and that it had staged when it received a message e with
\* Noise(e): they came from the transport before e
StagedBeforeNoise ==
    {m \in Range(tmp_queue) \cup Range(incoming_queue) :
        \E i, j \in 1..Len(call_rx) :
            /\ i < j
            /\ Noise(call_rx[j])
            /\ call_rx[i].src = "transport"
            /\ call_rx[i].msg = {m}}

\* C26: call_method ignores a message that has the awaited reply serial
\* but is neither a METHOD_RETURN nor an ERROR: it does not return on it,
\* does not queue it and keeps waiting; and when the call returns, the
\* messages it had staged before that message are in the queue.
C26_NoiseIgnored ==
    [][OpStep /\ sock' = sock /\ pc = "awaiting" =>
         /\ Len(call_rx') = Len(call_rx) + 1 /\ Noise(call_rx'[Len(call_rx')]) =>
               /\ pc' = "awaiting"
               /\ call_res' = "pending"
               /\ The(call_rx'[Len(call_rx')].msg)
                     \notin Range(incoming_queue') \cup Range(tmp_queue')
         /\ pc' = "idle" => StagedBeforeNoise \subseteq Range(incoming_queue')]_vars

\* C27: the outbound buffer holds the messages in the order of the
\* send_message calls, each with the serial that its send_message returned
\* in its primary header, so the serials in the buffer are strictly
\* increasing and the last one is the serial returned last.
C27_OutboundOrdered ==
    /\ \A i, j \in 1..Len(raw_out) : i < j => raw_out[i].serial < raw_out[j].serial
    /\ \A i \in 1..Len(raw_out) :
          \E k \in 1..Len(serials) : serials[k] = raw_out[i].serial
    /\ last.op = "send_message" /\ last.res = "Ok" /\ raw_out # <<>> =>
          raw_out[Len(raw_out)].serial \in last.ret

\* C28: call_method reads nothing before its METHOD_CALL is flushed: while
\* it is in the loop around flush it neither reads from the socket nor
\* touches the queue, it repeats the flush only while the outbound buffer
\* is not empty, it enters the receive loop only with the outbound buffer
\* empty, and an error of flush other than WouldBlock makes it return that
\* error with nothing read.
C28_FlushBeforeRead ==
    [][/\ pc' = "awaiting" => raw_out' = <<>>
       /\ pc # "flushing" /\ pc' = "awaiting" => pc = "awaiting"
       /\ pc = "flushing" /\ OpStep /\ sock' = sock =>
            /\ UNCHANGED <<raw_in, incoming_queue, tmp_queue, call_rx, taken>>
            /\ call_rx = <<>>
            /\ pc' = "flushing" => raw_out' # <<>> /\ call_res' = "pending"
            /\ pc' = "idle" => call_res' = "Io" /\ last'.res = "Io"
            /\ pc' \in {"flushing", "awaiting", "idle"}]_vars

\* a pass of call_method's loop around flush wrote one of two pending
\* messages and the socket would block: call_method is still in that loop
\* while a message of the peer waits to be read
C28_Witness ==
    /\ pc = "flushing"
    /\ last.op = "call_method" /\ last.res = "flush"
    /\ Len(serials) = 2
    /\ Len(raw_out) = 1
    /\ raw_in # <<>>

\* how many times m is in q
Count(q, m) == Cardinality({i \in 1..Len(q) : q[i] = m})

\* the step in which call_method returns its reply, with max_queued as it
\* was when the call started and not below the length the queue had then
ReplyStep ==
    /\ OpStep
    /\ pc = "awaiting" /\ pc' = "idle"
    /\ call_res' \in {"Ok", "MethodError"}
    /\ max_queued = call_at.max_queued
    /\ Len(call_at.queue) <= max_queued

C30_CallReturns ==
    (pc \in {"flushing", "awaiting"}) ~> (pc = "idle" /\ CallReturned)

\* a call_method that started with a message in the queue, on a connection
\* with a handler, has received another message before its reply and has
\* returned
C30_Witness ==
    /\ pc = "idle"
    /\ CallReturned
    /\ last.op = "call_method"
    /\ call_at.queue # <<>>
    /\ default_msg_handler # NoHandler
    /\ \E i \in 1..Len(call_rx) :
          call_rx[i].src = "transport" /\ Unrelated(The(call_rx[i].raw))
====
